---- MODULE Spec2Model ----
(***************************************************************************)
(* Model of matchmaking.py: match, select_seed_weighted and match_all.     *)
(*                                                                         *)
(* A player is the tuple <<name, rating, waited>> (player[0], player[1],   *)
(* player[2] of the source).  Lists are 1-based here, 0-based in the       *)
(* source; rank distances |i - seed_i| are the same in both.               *)
(*                                                                         *)
(* Floating point: a score is kept as its class, "zero", "pos" (finite     *)
(* and > 0), "inf" or "nan", which is what decides the support of the      *)
(* sampling distribution.  The elo gate is compared exactly in fixed       *)
(* point (unit 1/Scale elo).                                               *)
(***************************************************************************)
EXTENDS Integers, Sequences, FiniteSets, TLC

\* ------------------------------------------------------------------ bounds
MaxSmall == 5        \* largest size of a freely chosen input population
MaxWait == 1         \* largest waited-counter of an input player
MaxRuns == 2         \* number of consecutive match_all calls explored

ELO_RANGE == 100

\* Ratings of the input players: two within every gate of each other, one not
Ratings == {2000, 2100, 3000}
LowRating == CHOOSE r \in Ratings : \A q \in Ratings : r <= q
HighRating == CHOOSE r \in Ratings : \A q \in Ratings : r >= q
\* distance between the ratings of neighbours in a large input
LadderStep == ELO_RANGE \div 10
\* a rating far below every rating of Ratings
OutlierRating == LowRating - 10 * ELO_RANGE

\* --------------------------------------------------------------- constants
MinPlayers == 5      \* "possible_players < 5", "len(players) > 4"
MaxRounds == 5       \* "times_matched < 5"
Companions == 4      \* "for i in range(4)"
Scale == 100000      \* fixed-point unit of search_adj: 1/Scale

\* ----------------------------------------------------------------- helpers
Abs(x) == IF x < 0 THEN -x ELSE x

Range(s) == {s[i] : i \in 1..Len(s)}

Name(p) == p[1]
Rating(p) == p[2]
Waited(p) == p[3]

Names(s) == {Name(s[i]) : i \in 1..Len(s)}

RECURSIVE SumWaited(_)
\* sum(queue_time)
SumWaited(ps) == IF ps = <<>> THEN 0 ELSE Waited(Head(ps)) + SumWaited(Tail(ps))

RECURSIVE InsertByRating(_, _)
\* p goes after every element whose rating is <= its own (stable)
InsertByRating(p, s) ==
    IF s = <<>> THEN <<p>>
    ELSE IF Rating(p) < Rating(Head(s)) THEN <<p>> \o s
    ELSE <<Head(s)>> \o InsertByRating(p, Tail(s))

RECURSIVE SortedByRating(_)
\* sorted(players, key=lambda x: x[1]): ascending by rating, ties in input order
SortedByRating(ps) ==
    IF ps = <<>> THEN <<>>
    ELSE InsertByRating(ps[Len(ps)], SortedByRating(SubSeq(ps, 1, Len(ps) - 1)))

\* 10*np.exp(-0.3*n) + 1, in units of 1/Scale, rounded down
search_adj(n) ==
    CASE n = 0 -> 1100000 [] n = 1 -> 840818 [] n = 2 -> 648811
      [] n = 3 -> 506569  [] n = 4 -> 401194 [] n = 5 -> 323130
      [] n = 6 -> 265298  [] n = 7 -> 222456 [] n = 8 -> 190717
      [] n = 9 -> 167205  [] n = 10 -> 149787 [] n = 11 -> 136883
      [] n = 12 -> 127323 [] n = 13 -> 120241 [] n = 14 -> 114995
      [] n = 15 -> 111108 [] n = 16 -> 108229
      [] OTHER -> 100000

\* OutOfRange without np.abs: only players rated above the seed can be out.
OutOfRange_no_abs(p, seed, n) ==
    (Rating(p) - Rating(seed)) * Scale > ELO_RANGE * search_adj(n) * (Waited(seed) + 1)

\* np.abs(players[i][1] - players[seed_i][1]) > ELO_RANGE*search_adj(n)*(players[seed_i][2]+1)
OutOfRange(p, seed, n) ==
    Abs(Rating(p) - Rating(seed)) * Scale > ELO_RANGE * search_adj(n) * (Waited(seed) + 1)

\* np.std(elo_diffs) == 0: every rating of the pool is the same
StdIsZero(ps) == \A i \in 1..Len(ps) : Rating(ps[i]) = Rating(ps[1])

\* np.abs(elo_diffs/np.std(elo_diffs))[i]: 0/0 is nan, x/0 is inf
elo_diffs_std(ps, seed_i, i) ==
    IF StdIsZero(ps) THEN "nan"
    ELSE IF Rating(ps[i]) = Rating(ps[seed_i]) THEN "zero" ELSE "pos"

\* 1/R**(np.log(n)*d)
score(R, d, n) ==
    LET e == IF d = "nan" THEN "nan"                 \* exponent np.log(n)*d
             ELSE IF n = 1 \/ d = "zero" THEN "zero" ELSE "pos"
        pow == IF R = 1 THEN "pos"                   \* 1**x = 1, also for nan
               ELSE IF e = "nan" THEN "nan"
               ELSE IF e = "zero" THEN "pos"         \* x**0 = 1
               ELSE IF R = 0 THEN "zero" ELSE "pos"
    IN  CASE pow = "nan" -> "nan"
          [] pow = "zero" -> "inf"
          [] OTHER -> "pos"

\* the population parameter line 38 passes to score: len(players), the pool
score_n(ps, n) == Len(ps)

\* the population parameter line 44 passes to search_adj: match's parameter n
gate_n(ps, n) == n

\* scores after "scores[seed_i] = 0" and the elo-gate loop; ps is the sorted pool.
\* The score's n is len(players), the gate's n is match's parameter.
scores(ps, seed_i, n) ==
    [i \in 1..Len(ps) |->
        IF OutOfRange(ps[i], ps[seed_i], gate_n(ps, n)) THEN "zero"
        ELSE IF i = seed_i THEN "zero"
        ELSE score(Abs(i - seed_i), elo_diffs_std(ps, seed_i, i), score_n(ps, n))]

\* the gate loop's counter: every i (the seed too) that is not out of range
possible_players(ps, seed_i, n) ==
    Cardinality({i \in 1..Len(ps) : ~OutOfRange(ps[i], ps[seed_i], gate_n(ps, n))})

\* sum(scores)
SumClass(sc) ==
    IF \E i \in DOMAIN sc : sc[i] = "nan" THEN "nan"
    ELSE IF \E i \in DOMAIN sc : sc[i] = "inf" THEN "inf"
    ELSE IF \A i \in DOMAIN sc : sc[i] = "zero" THEN "zero"
    ELSE "pos"

\* p = scores/sum(scores)
Normalised(sc) ==
    LET s == SumClass(sc)
    IN  [i \in DOMAIN sc |->
            CASE s = "pos" -> sc[i]
              [] s = "inf" -> IF sc[i] = "inf" THEN "nan" ELSE "zero"
              [] OTHER -> "nan"]                     \* x/nan, x/0.0

HasNaN(p) == \E i \in DOMAIN p : p[i] = "nan"

Support(p) == {i \in DOMAIN p : p[i] = "pos"}

RECURSIVE Draws_with_replacement(_, _)
\* Draws without "p[chosen] = 0": a drawn index stays in the support.
Draws_with_replacement(S, k) ==
    IF k = 0 THEN {<<>>}
    ELSE UNION {{<<c>> \o d : d \in Draws_with_replacement(S, k - 1)} : c \in S}

RECURSIVE Draws(_, _)
\* The sampling loop with k draws to go over a distribution of support S: each
\* draw takes an index of the support, which "p[chosen] = 0" then removes.
Draws(S, k) ==
    IF k = 0 THEN {<<>>}
    ELSE UNION {{<<c>> \o d : d \in Draws(S \ {c}, k - 1)} : c \in S}

\* players[seed_i] after line 32 has rebound players to the sorted list: the
\* player match zeroes, gates around and puts first in the group
match_seed(players, seed_i) == SortedByRating(players)[seed_i]

\* p = scores/sum(scores) over the sorted pool (lines 32-52)
match_p(players, seed_i, n) ==
    Normalised(scores(SortedByRating(players), seed_i, n))

\* match returns None (lines 49-50)
match_returns_None(players, seed_i, n) ==
    possible_players(SortedByRating(players), seed_i, n) < MinPlayers

\* np.random.choice raises ValueError (line 55): p contains nan ("probabilities
\* contain NaN"), or no mass is left for one of the four draws ("probabilities
\* do not sum to 1"); lines 36-52 only warn on 0/0, they do not raise
match_raises(players, seed_i, n) ==
    /\ ~match_returns_None(players, seed_i, n)
    /\ LET p == match_p(players, seed_i, n)
       IN  HasNaN(p) \/ Cardinality(Support(p)) < Companions

\* the lists match can return (lines 53-60): the seed, then the four drawn
match(players, seed_i, n) ==
    IF match_returns_None(players, seed_i, n) \/ match_raises(players, seed_i, n)
    THEN {}
    ELSE LET ps == SortedByRating(players)
         IN  {<<ps[seed_i]>> \o [k \in 1..Companions |-> ps[d[k]]] :
              d \in Draws(Support(match_p(players, seed_i, n)), Companions)}

\* select_seed_weighted always taking its uniform branch.
select_seed_uniform(players) == 1..Len(players)

\* select_seed_weighted(players): the indices np.random.choice can return
select_seed_weighted(players) ==
    IF SumWaited(players) = 0 THEN 1..Len(players)
    ELSE {i \in 1..Len(players) : Waited(players[i]) > 0}

\* Remaining with only the seed taken out of the pool.
Remaining_seed_only(players, new_match) ==
    SelectSeq(players, LAMBDA p : p # new_match[1])

\* [player for player in players if player not in new_match]
Remaining(players, new_match) ==
    SelectSeq(players, LAMBDA p : p \notin Range(new_match))

\* Aged with the incremented list thrown away.
Aged_no_increment(players) == players

\* [(player[0], player[1], player[2]+1) for player in players]
Aged(players) ==
    [i \in 1..Len(players) |->
        <<Name(players[i]), Rating(players[i]), Waited(players[i]) + 1>>]

\* [player[0] for player in new_match]
Handles(new_match) == [i \in 1..Len(new_match) |-> Name(new_match[i])]

\* ListAfterMatch had match sorted its argument in place (players.sort(...)).
ListAfterMatch_sorted_in_place(players) == SortedByRating(players)

\* The list object handed to match, after the call: sorted() builds a new list.
ListAfterMatch(players) == players

\* ------------------------------------------------------------------- state
VARIABLES
    callerList,      \* contents of the list object the caller passes to match_all
    players_is_arg,  \* the local name "players" is still bound to that object
    players,         \* match_all's local "players"
    matches,         \* match_all's local "matches"
    times_matched,   \* match_all's local "times_matched"
    players_picked,  \* match_all's local "players_picked"
    n,               \* match_all's local "n"
    pc,              \* "idle", "outer" (line 76), "inner" (line 78), "done", "error"
    run,             \* number of the current call of match_all
    passed,          \* history: the caller's list as it was when the call began
    round_start,     \* history: len(players) when the current round began
    att              \* history: the last group-formation attempt of this call

vars == <<callerList, players_is_arg, players, matches, times_matched,
          players_picked, n, pc, run, passed, round_start, att>>

\* pool: "players" when the attempt began; chosen: the index select_seed_weighted
\* returned; seed: the player match used as seed; kind: "None", "match" or
\* "ValueError"; match: the list match returned
NoAttempt ==
    [pool |-> <<>>, chosen |-> 0, seed |-> <<>>, kind |-> "-", match |-> <<>>]

\* ------------------------------------------------------------------ inputs
\* c players of one rating and one waited-counter, handles first..first+c-1
Block(c, r, w, first) == [i \in 1..c |-> <<first + i - 1, r, w>>]

\* Small inputs: a block A then a block B of fresh players, at most MaxSmall
\* players, every rating of Ratings for each block and every waited-counter up
\* to MaxWait for block A.
SmallPopulations ==
    {Block(cA, rA, wA, 1) \o Block(cB, rB, 0, cA + 1) :
     cA \in 0..MaxSmall, cB \in 0..MaxSmall,
     rA \in Ratings, rB \in Ratings, wA \in 0..MaxWait}

\* c fresh players with handles first..first+c-1 and ratings r, r + LadderStep,
\* r + 2*LadderStep, ...
Ladder(c, r, first) == [i \in 1..c |-> <<first + i - 1, r + (i - 1) * LadderStep, 0>>]

\* Large inputs, all fresh (waited 0): a full group's worth from HighRating up,
\* then four players from LowRating up, then a fifth of them or a far-away
\* player.
LargePopulations ==
    {Ladder(MinPlayers, HighRating, 1)
        \o Ladder(MinPlayers - 1, LowRating, MinPlayers + 1)
        \o Block(1, rL, 0, 2 * MinPlayers) :
     rL \in {LowRating + (MinPlayers - 1) * LadderStep, OutlierRating}}

Populations ==
    {ps \in SmallPopulations : Len(ps) <= MaxSmall} \cup LargePopulations

Init ==
    /\ callerList \in Populations
    /\ players_is_arg = FALSE
    /\ players = <<>>
    /\ matches = <<>>
    /\ times_matched = 0
    /\ players_picked = 0
    /\ n = 0
    /\ pc = "idle"
    /\ run = 1
    /\ passed = callerList
    /\ round_start = 0
    /\ att = NoAttempt

\* ----------------------------------------------------------------- actions
\* match_all(players): lines 73-75
Call ==
    /\ pc = "idle"
    /\ players' = callerList
    /\ players_is_arg' = TRUE
    /\ matches' = <<>>
    /\ times_matched' = 0
    /\ n' = Len(callerList)
    /\ pc' = "outer"
    /\ passed' = callerList
    /\ att' = NoAttempt
    /\ round_start' = 0
    /\ players_picked' = 0
    /\ UNCHANGED <<callerList, run>>

\* OuterCond letting a pool of 4 into a round (len(players) > 3).
OuterCond_off_by_one == times_matched < MaxRounds /\ Len(players) > MinPlayers - 2

\* InnerCond without the bound on the attempts of a round.
InnerCond_no_attempt_bound == Len(players) > MinPlayers - 1

\* InnerCond ending a round one attempt early (players_picked < len(players) - 1).
InnerCond_one_attempt_short ==
    Len(players) > MinPlayers - 1 /\ players_picked < Len(players) - 1

\* line 76: times_matched < 5 and len(players) > 4
OuterCond == times_matched < MaxRounds /\ Len(players) > MinPlayers - 1

\* line 78: len(players) > 4 and players_picked < len(players)
InnerCond == Len(players) > MinPlayers - 1 /\ players_picked < Len(players)

\* line 76 true, line 77
BeginRound ==
    /\ pc = "outer"
    /\ OuterCond
    /\ players_picked' = 0
    /\ round_start' = Len(players)
    /\ pc' = "inner"
    /\ UNCHANGED <<callerList, players_is_arg, players, matches, times_matched,
                   n, run, passed, att>>

\* line 76 false, line 87
Return ==
    /\ pc = "outer"
    /\ ~OuterCond
    /\ pc' = "done"
    /\ UNCHANGED <<callerList, players_is_arg, players, matches, times_matched,
                   players_picked, n, run, passed, round_start, att>>

\* lines 78-84 when match returns None
AttemptNone ==
    /\ pc = "inner" /\ InnerCond
    /\ \E seed_i \in select_seed_weighted(players) :
         /\ match_returns_None(players, seed_i, n)
         /\ att' = [pool |-> players, chosen |-> seed_i,
                    seed |-> match_seed(players, seed_i), kind |-> "None",
                    match |-> <<>>]
    /\ players' = ListAfterMatch(players)
    /\ callerList' = IF players_is_arg THEN ListAfterMatch(callerList)
                     ELSE callerList
    /\ players_picked' = players_picked + 1
    /\ UNCHANGED <<players_is_arg, matches, times_matched, n, pc, run, passed,
                   round_start>>

\* lines 78-84 when match returns a group
AttemptMatch ==
    /\ pc = "inner" /\ InnerCond
    /\ \E seed_i \in select_seed_weighted(players) :
       \E new_match \in match(players, seed_i, n) :
         /\ att' = [pool |-> players, chosen |-> seed_i,
                    seed |-> match_seed(players, seed_i), kind |-> "match",
                    match |-> new_match]
         /\ players' = Remaining(ListAfterMatch(players), new_match)
         /\ matches' = Append(matches, Handles(new_match))
    /\ callerList' = IF players_is_arg THEN ListAfterMatch(callerList)
                     ELSE callerList
    /\ players_is_arg' = FALSE
    /\ players_picked' = players_picked + 1
    /\ UNCHANGED <<times_matched, n, pc, run, passed, round_start>>

\* lines 78-80 when np.random.choice raises inside match
AttemptError ==
    /\ pc = "inner" /\ InnerCond
    /\ \E seed_i \in select_seed_weighted(players) :
         /\ match_raises(players, seed_i, n)
         /\ att' = [pool |-> players, chosen |-> seed_i,
                    seed |-> match_seed(players, seed_i), kind |-> "ValueError",
                    match |-> <<>>]
    /\ callerList' = IF players_is_arg THEN ListAfterMatch(callerList)
                     ELSE callerList
    /\ pc' = "error"
    /\ UNCHANGED <<players_is_arg, players, matches, times_matched,
                   players_picked, n, run, passed, round_start>>

\* line 78 false, lines 85-86
EndRound ==
    /\ pc = "inner" /\ ~InnerCond
    /\ players' = Aged(players)
    /\ players_is_arg' = FALSE
    /\ times_matched' = times_matched + 1
    /\ pc' = "outer"
    /\ UNCHANGED <<callerList, matches, players_picked, n, run, passed,
                   round_start, att>>

\* The caller's players that no returned group names
Leftover == SelectSeq(callerList, LAMBDA p : \A g \in Range(matches) : Name(p) \notin Range(g))

\* The caller passes the players a run did not place to a further run.
NextRun ==
    /\ pc = "done" /\ run < MaxRuns
    /\ callerList' = Leftover
    /\ run' = run + 1
    /\ pc' = "idle"
    /\ players_is_arg' = FALSE
    /\ players' = <<>>
    /\ matches' = <<>>
    /\ times_matched' = 0
    /\ players_picked' = 0
    /\ n' = 0
    /\ passed' = Leftover
    /\ round_start' = 0
    /\ att' = NoAttempt

Next ==
    \/ Call
    \/ BeginRound
    \/ Return
    \/ AttemptNone
    \/ AttemptMatch
    \/ AttemptError
    \/ EndRound
    \/ NextRun

Spec == Init /\ [][Next]_vars

\* ------------------------------------------------------------------ claims
\* The groups match_all has returned when pc = "done", formed so far otherwise
Groups == Range(matches)

IdenticalFresh(ps) ==
    \A i \in 1..Len(ps) : Rating(ps[i]) = Rating(ps[1]) /\ Waited(ps[i]) = 0

\* In gate of seed for population parameter m, as the claims state it:
\* |rating - rating_seed| <= 100*(10*e^(-0.3m)+1)*(waited_seed+1)
WithinGate(p, seed, m) ==
    Abs(Rating(p) - Rating(seed)) * Scale
        <= ELO_RANGE * search_adj(m) * (Waited(seed) + 1)

\* C1: every emitted group names exactly 5 pairwise distinct players, and no
\* player is named by two groups of the same run.
C1_GroupsDistinctAndDisjoint ==
    /\ \A g \in 1..Len(matches) :
         Len(matches[g]) = 5 /\ Cardinality(Range(matches[g])) = 5
    /\ \A g, h \in 1..Len(matches) :
         g # h => Range(matches[g]) \cap Range(matches[h]) = {}

C1_Witness == pc = "done" /\ Len(matches) = 2

\* C2: a run on 5 players of one rating, all with waited 0, raises no error and
\* returns exactly one group, of all 5 players.
C2_IdenticalFiveGrouped ==
    (pc # "idle" /\ Len(passed) = 5 /\ IdenticalFresh(passed)) =>
        /\ pc # "error"
        /\ att.kind # "ValueError"
        /\ pc = "done" =>
             Len(matches) = 1 /\ Range(matches[1]) = Names(passed)

\* C3: the player match uses as seed is the player select_seed_weighted chose
\* in the pool; so while some pool player has waited > 0, no player with
\* waited 0 is the seed of an attempt.
C3_SeedIsChosenPlayer ==
    att.kind # "-" =>
        /\ att.seed = att.pool[att.chosen]
        /\ (\E i \in 1..Len(att.pool) : Waited(att.pool[i]) > 0)
              => Waited(att.seed) > 0

\* C4: in every attempt a non-seed player can be drawn (has a positive score
\* after the gate loop) iff it is within the seed's gate, and every companion of
\* a group match returns is within it.
C4_DrawableIffWithinGate ==
    att.kind # "-" =>
        LET ps == SortedByRating(att.pool)
            sc == scores(ps, att.chosen, n)
        IN  /\ \A i \in 1..Len(ps) :
                 Name(ps[i]) # Name(att.seed) =>
                    (sc[i] = "pos" <=> WithinGate(ps[i], att.seed, Len(passed)))
            /\ \A k \in 2..Len(att.match) :
                 WithinGate(att.match[k], att.seed, Len(passed))

\* Number of steps a call in this state can still take: it falls with every
\* step of match_all and is never negative.
Measure ==
    LET N == Len(passed)
    IN  CASE pc = "outer" -> (5 - times_matched) * (N + 2) + 1
          [] pc = "inner" -> (5 - times_matched) * (N + 2) - players_picked
          [] OTHER -> 0

\* What C5 asks of a step taken inside a call
C5_Step ==
    pc \in {"outer", "inner"} =>
        /\ times_matched' <= 5
        /\ players_picked' <= round_start'
        /\ round_start' <= Len(passed)
        /\ (times_matched' > times_matched \/ round_start' # round_start)
              => Len(players) > 4 \/ pc = "inner"
        /\ players_picked' > players_picked
              => Len(players) > 4 /\ players_picked < round_start
        /\ Measure' < Measure
        /\ Measure' >= 0

\* C5: match_all terminates: at most 5 rounds, no round and no attempt on a pool
\* of 4 or fewer, at most round-start-pool-size attempts per round, and every
\* step of a call brings it closer to its end.
C5_BoundedRoundsAndAttempts == [][C5_Step]_vars

C5_Witness == pc = "done" /\ times_matched = 5 /\ players_picked = round_start

\* C6: on an input of 4 or fewer players match_all returns no group, without a
\* round, a seed selection or an attempt.
C6_SmallInputReturnsEmpty ==
    (pc # "idle" /\ Len(passed) <= 4) =>
        /\ pc \in {"outer", "done"}
        /\ att = NoAttempt
        /\ times_matched = 0 /\ round_start = 0 /\ players_picked = 0
        /\ matches = <<>>

C6_Witness == pc = "done" /\ Len(passed) = 4 /\ matches = <<>>

\* What C7 asks of a step that appends a group to matches
C7_Step ==
    /\ Len(matches') = Len(matches) + 1 =>
         LET g == Range(matches'[Len(matches')])
         IN  /\ players' = SelectSeq(players, LAMBDA p : Name(p) \notin g)
             /\ Len(players') = Len(players) - 5
             /\ g \subseteq Names(players)
    /\ pc \in {"outer", "inner"} => Names(players') \subseteq Names(players)

\* C7: a successful group formation leaves the pool as it was minus the five
\* members of the new group, the others in their order and unchanged, and no
\* player that has left the pool comes back during the run.
C7_PoolMinusGroup == [][C7_Step]_vars

C7_Witness == att.kind = "match" /\ pc = "inner" /\ Len(players) = 5

\* What C8 counts: the non-seed players of the attempt's pool within the gate
EligibleCompanions ==
    {i \in 1..Len(att.pool) :
        /\ Name(att.pool[i]) # Name(att.seed)
        /\ WithinGate(att.pool[i], att.seed, Len(passed))}

Outliers ==
    {i \in 1..Len(passed) :
        \A j \in 1..Len(passed) :
            j # i => Abs(Rating(passed[i]) - Rating(passed[j])) * Scale
                        > ELO_RANGE * search_adj(10)}

\* C9: on 10 players, all with waited 0, no group formed in round 0 names a
\* player whose rating is beyond the waited-0 gate width from every other's.
C9_OutlierNotGroupedInRoundZero ==
    (pc # "idle" /\ Len(passed) = 10 /\ times_matched = 0
        /\ \A i \in 1..Len(passed) : Waited(passed[i]) = 0) =>
        \A i \in Outliers : \A g \in Groups : Name(passed[i]) \notin Range(g)

C9_Witness ==
    /\ Len(passed) = 10 /\ times_matched = 0 /\ Len(matches) = 1
    /\ \A i \in 1..Len(passed) : Waited(passed[i]) = 0
    /\ Outliers # {}
    /\ att.kind = "None" /\ Name(att.seed) \in {Name(passed[i]) : i \in Outliers}

\* C10: a call leaves the caller's list as it was, starts from nothing but the
\* list it is passed, and the players it did not place can be passed to a
\* further call.
C10_InputUntouchedNoHiddenState ==
    /\ pc # "idle" => callerList = passed
    /\ (pc = "outer" /\ att = NoAttempt /\ times_matched = 0) =>
          /\ players = callerList
          /\ n = Len(callerList)
          /\ matches = <<>>
    /\ pc = "idle" => callerList = passed /\ matches = <<>> /\ players = <<>>

C10_Witness == run = 2 /\ pc = "done" /\ Len(matches) = 1 /\ callerList = passed

\* The gate part of an attempt in which no score is nan
GateDecidesWhenNoNaN ==
    att.kind \notin {"-", "ValueError"} =>
        LET ps == SortedByRating(att.pool)
            sc == scores(ps, att.chosen, n)
        IN  /\ \A i \in 1..Len(ps) :
                 Name(ps[i]) # Name(att.seed) =>
                    (sc[i] = "pos" <=> WithinGate(ps[i], att.seed, Len(passed)))
            /\ \A k \in 2..Len(att.match) :
                 WithinGate(att.match[k], att.seed, Len(passed))

\* The outcome of an attempt in which no score is nan
OutcomeDecidedByEligibleWhenNoNaN ==
    att.kind \notin {"-", "ValueError"} =>
        /\ att.kind = "None" <=> Cardinality(EligibleCompanions) < 4
        /\ att.kind = "match" <=> Cardinality(EligibleCompanions) >= 4
        /\ att.kind = "match" => Len(att.match) = 5

\* A round has just been completed: line 86 has run and line 76 is next.
\* players_picked and round_start are still those of that round.
RoundJustEnded == pc = "outer" /\ times_matched > 0

\* C11 as claimed: a round ends only with a pool of 4 or fewer or with as many
\* attempts made as the pool had players when the round began.
C11_AttemptsEqualRoundStart ==
    RoundJustEnded => Len(players) <= 4 \/ players_picked = round_start

\* C11 as amended: a round is completed only with a pool of 4 or fewer or with
\* the attempts made having reached the current pool size; they are then at
\* least the pool size at the round's end and at most that at its start.
C11_AttemptsReachCurrentPool ==
    RoundJustEnded =>
        \/ Len(players) <= 4
        \/ Len(players) <= players_picked /\ players_picked <= round_start

C11_Witness ==
    /\ RoundJustEnded /\ Len(players) > 4
    /\ Len(players) < players_picked /\ players_picked < round_start

\* C12: every player of the pool keeps its handle and rating and has the
\* waited-counter it had in the input plus the number of completed rounds; so
\* the counter moves only when a round ends, by 1, for every player still in
\* the pool.
C12_WaitedIsInputPlusRounds ==
    pc \in {"outer", "inner"} =>
        \A i \in 1..Len(players) :
            \E j \in 1..Len(passed) :
                /\ Name(players[i]) = Name(passed[j])
                /\ Rating(players[i]) = Rating(passed[j])
                /\ Waited(players[i]) = Waited(passed[j]) + times_matched

C12_Witness ==
    /\ pc = "inner" /\ times_matched = 4 /\ Len(players) > 4
    /\ att.kind = "None" /\ players_picked > 0
    /\ \E i \in 1..Len(players) : players[i] # att.seed

\* What C13 asks of a step that is an attempt in which match returns None
C13_Step ==
    (pc = "inner" /\ players_picked' # players_picked /\ att'.kind = "None") =>
        /\ players_picked' = players_picked + 1
        /\ players' = players
        /\ att'.seed \in Range(players')
        /\ matches' = matches
        /\ callerList' = callerList
        /\ times_matched' = times_matched /\ n' = n /\ pc' = pc

\* C13: a failed attempt adds 1 to the round's attempt counter and changes
\* nothing else: not the pool, its order or its players (the attempted seed
\* stays), not the groups formed so far.
C13_FailedAttemptOnlyCounts == [][C13_Step]_vars

C13_Witness ==
    /\ pc = "inner" /\ att.kind = "None" /\ players_picked > 1
    /\ Len(matches) = 1 /\ players = att.pool

\* An attempt that follows a failed attempt of the same round
AttemptAfterFailure ==
    /\ pc = "inner" /\ players_picked > 0 /\ att.kind = "None"
    /\ players_picked' = players_picked + 1

\* C14 as claimed: the attempt after a failed one uses another seed player.
C14_NextSeedDiffers ==
    [][AttemptAfterFailure =>
          att'.seed # att.seed /\ att'.pool[att'.chosen] # att.pool[att.chosen]]_vars

\* C14 as amended: the attempt after a failed one draws its seed afresh from
\* the same pool by the waited-weighted rule, the failed seed included.
C14_NextSeedDrawnAfresh ==
    [][AttemptAfterFailure =>
          /\ att'.pool = att.pool
          /\ att'.chosen \in 1..Len(att.pool)
          /\ \/ Waited(att.pool[att'.chosen]) > 0
             \/ \A i \in 1..Len(att.pool) : Waited(att.pool[i]) = 0]_vars

\* two failed attempts of one round on a pool with a single player that has
\* waited: both chose that player
C14_Witness ==
    /\ pc = "inner" /\ att.kind = "None" /\ players_picked >= 2
    /\ players = att.pool /\ Len(players) = round_start
    /\ Cardinality({i \in 1..Len(players) : Waited(players[i]) > 0}) = 1

\* C15: whenever match draws, the probability vector is a distribution (no nan,
\* no inf, normalised with mass left for each of the 4 draws), with probability
\* 0 for the seed, for every player outside the gate and for every player
\* already drawn.
C15_ValidDistributionAtDraws ==
    att.kind \in {"match", "ValueError"} =>
        LET ps == SortedByRating(att.pool)
            p == match_p(att.pool, att.chosen, n)
        IN  /\ \A i \in 1..Len(ps) : p[i] \in {"zero", "pos"}
            /\ Cardinality(Support(p)) >= 4
            /\ p[att.chosen] = "zero"
            /\ \A i \in 1..Len(ps) :
                 ~WithinGate(ps[i], att.seed, Len(passed)) => p[i] = "zero"
            /\ att.kind = "match" /\ Cardinality(Range(att.match)) = 5

\* The distribution of an attempt that drew and in which no score is nan
DistributionValidWhenNoNaN ==
    att.kind = "match" =>
        LET ps == SortedByRating(att.pool)
            p == match_p(att.pool, att.chosen, n)
        IN  /\ \A i \in 1..Len(ps) : p[i] \in {"zero", "pos"}
            /\ Cardinality(Support(p)) >= 4
            /\ p[att.chosen] = "zero"
            /\ \A i \in 1..Len(ps) :
                 ~WithinGate(ps[i], att.seed, Len(passed)) => p[i] = "zero"
            /\ Cardinality(Range(att.match)) = 5

\* C16: in every attempt the population parameter of the score and that of the
\* gate are both the size of the input population of the run.
C16_ScoreAndGateUseInputSize ==
    att.kind # "-" =>
        LET ps == SortedByRating(att.pool)
        IN  /\ gate_n(ps, n) = Len(passed)
            /\ score_n(ps, n) = Len(passed)

\* The gate's half of C16
GateUsesInputSize ==
    att.kind # "-" => gate_n(SortedByRating(att.pool), n) = Len(passed)
====
